---- MODULE Spec2Model ----
(***************************************************************************)
(* ATT-DB (AllTheTorr): the catalog engine shared by the console front-end *)
(* (src/CLI.py) and the PyQt front-end (src/GUI.py).                       *)
(*                                                                         *)
(* Python strings are modelled as sequences of one-character strings, so   *)
(* that upper(), replace(), strip(), split(), endswith() and float() are   *)
(* computed as Python computes them.  A float is modelled exactly as       *)
(*     m * 10^(-f) * 1024^e      (record [m, f, e])                        *)
(* and compared by NumLeq/NumEq, never by structural equality.             *)
(***************************************************************************)
EXTENDS Integers, Sequences, FiniteSets, TLC

VARIABLES
    frontend,     \* "CLI" (src/CLI.py) or "GUI" (src/GUI.py)
    status,       \* "boot" | "running" | "exited" | "crashed"
    cfgFile,      \* content of config.json on disk
    config,       \* the in-memory config dict
    UPLOADS_URL,  \* the configured URL (CLI global / GUI attribute)
    uploads,      \* the active catalog
    controls,     \* GUI: TRUE when the buttons and the URL field are enabled
    threads,      \* GUI: FetchThreads started and not yet completed
    signals,      \* GUI: finished_signal emissions queued for the GUI thread
    last,         \* what the last handler did (its inputs, result, exception)
    sizeIn,       \* size parser harness: the input string
    sizeOut       \* size parser harness: the result of human_size_to_bytes

vars == <<frontend, status, cfgFile, config, UPLOADS_URL, uploads, controls,
          threads, signals, last, sizeIn, sizeOut>>

Frontends == {"CLI", "GUI"}

-----------------------------------------------------------------------------
(* Python str methods on sequences of characters.                          *)

LowerCase == <<"a","b","c","d","e","f","g","h","i","j","k","l","m",
               "n","o","p","q","r","s","t","u","v","w","x","y","z">>
UpperCase == <<"A","B","C","D","E","F","G","H","I","J","K","L","M",
               "N","O","P","Q","R","S","T","U","V","W","X","Y","Z">>

ToUpper(c) ==
    IF \E i \in 1..Len(LowerCase) : LowerCase[i] = c
    THEN UpperCase[CHOOSE i \in 1..Len(LowerCase) : LowerCase[i] = c]
    ELSE c

ToLower(c) ==
    IF \E i \in 1..Len(UpperCase) : UpperCase[i] = c
    THEN LowerCase[CHOOSE i \in 1..Len(UpperCase) : UpperCase[i] = c]
    ELSE c

str_upper(s) == [i \in 1..Len(s) |-> ToUpper(s[i])]

str_lower(s) == [i \in 1..Len(s) |-> ToLower(s[i])]

IsSpace(c) == c \in {" ", "\t"}

StartsWith(s, p) == Len(p) <= Len(s) /\ SubSeq(s, 1, Len(p)) = p

str_endswith(s, suf) ==
    Len(suf) <= Len(s) /\ SubSeq(s, Len(s) - Len(suf) + 1, Len(s)) = suf

\* sub in s
str_contains(s, sub) ==
    \E i \in 1..(Len(s) - Len(sub) + 1) : SubSeq(s, i, i + Len(sub) - 1) = sub

\* s.replace(old, new), old non-empty: leftmost non-overlapping occurrences
RECURSIVE str_replace(_, _, _)
str_replace(s, old, new) ==
    IF s = <<>> THEN <<>>
    ELSE IF StartsWith(s, old)
         THEN new \o str_replace(SubSeq(s, Len(old) + 1, Len(s)), old, new)
         ELSE <<s[1]>> \o str_replace(Tail(s), old, new)

RECURSIVE str_lstrip(_)
str_lstrip(s) ==
    IF s # <<>> /\ IsSpace(s[1]) THEN str_lstrip(Tail(s)) ELSE s

RECURSIVE str_rstrip(_)
str_rstrip(s) ==
    IF s # <<>> /\ IsSpace(s[Len(s)])
    THEN str_rstrip(SubSeq(s, 1, Len(s) - 1)) ELSE s

str_strip(s) == str_rstrip(str_lstrip(s))

\* the first whitespace-free token of s (s starts with a non-space)
RECURSIVE FirstToken(_)
FirstToken(s) ==
    IF s = <<>> \/ IsSpace(s[1]) THEN <<>>
    ELSE <<s[1]>> \o FirstToken(Tail(s))

\* s.split(): the tokens between runs of whitespace
RECURSIVE str_split(_)
str_split(s) ==
    LET t == str_lstrip(s) IN
    IF t = <<>> THEN <<>>
    ELSE LET tok == FirstToken(t) IN
         <<tok>> \o str_split(SubSeq(t, Len(tok) + 1, Len(t)))

-----------------------------------------------------------------------------
(* Python floats, as far as the size parser uses them.                     *)

Num(m, f, e) == [m |-> m, f |-> f, e |-> e]

Zero == Num(0, 0, 0)

\* a <= b for a = m*10^(-f)*1024^e, without ever forming a product that
\* leaves TLC's integers: A*K <= B iff A <= B \div K for K > 0.
NumLeq(a, b) ==
    LET A == a.m * 10^(b.f)
        B == b.m * 10^(a.f)
        d == a.e - b.e
    IN  IF d >= 0 THEN A <= B \div (1024^d)
        ELSE ~ (B <= (A - 1) \div (1024^(0 - d)))

NumEq(a, b) == NumLeq(a, b) /\ NumLeq(b, a)

NumLess(a, b) == ~ NumLeq(b, a)

Digits == <<"0","1","2","3","4","5","6","7","8","9">>

IsDigit(c) == \E i \in 1..10 : Digits[i] = c

DigitVal(c) == (CHOOSE i \in 1..10 : Digits[i] = c) - 1

RECURSIVE DigitsVal(_)
DigitsVal(s) ==
    IF s = <<>> THEN 0
    ELSE DigitsVal(SubSeq(s, 1, Len(s) - 1)) * 10 + DigitVal(s[Len(s)])

\* float(s): surrounding whitespace is ignored, then an optional sign and a
\* decimal numeral with at most one point and at least one digit.  Anything
\* else raises ValueError (ok = FALSE).  Exponent, inf and nan spellings are
\* not in the alphabet of the inputs checked here.
float_numeral(neg, body, digs, dots) ==
    IF /\ \A i \in 1..Len(body) : IsDigit(body[i]) \/ body[i] = "."
       /\ Cardinality(dots) <= 1
       /\ digs # <<>>
    THEN [ok  |-> TRUE,
          val |-> Num(IF neg THEN 0 - DigitsVal(digs) ELSE DigitsVal(digs),
                      IF dots = {} THEN 0 ELSE Len(body) - (CHOOSE i \in dots : TRUE),
                      0)]
    ELSE [ok |-> FALSE, val |-> Zero]

float_unsigned(neg, body) ==
    float_numeral(neg, body, SelectSeq(body, IsDigit),
                  {i \in 1..Len(body) : body[i] = "."})

float_stripped(s) ==
    float_unsigned(s # <<>> /\ s[1] = "-",
                   IF s # <<>> /\ s[1] \in {"-", "+"} THEN Tail(s) ELSE s)

float(s0) == float_stripped(str_strip(s0))

\* number / 1024.0, number, number * 1024.0, number * 1024.0 * 1024.0
Scale(n, k) == Num(n.m, n.f, n.e + k)

-----------------------------------------------------------------------------
(* A call's outcome: a value, or an exception propagating to the caller.   *)

Ret(v) == [raised |-> FALSE, val |-> v]

Raise(v) == [raised |-> TRUE, val |-> v]

KB == <<"K", "B">>
MB == <<"M", "B">>
GB == <<"G", "B">>
TB == <<"T", "B">>

\* the unit ladder shared by both front-ends
UnitToMB(number, unit) ==
    IF str_contains(unit, KB) THEN Scale(number, 0 - 1)
    ELSE IF str_contains(unit, MB) THEN number
    ELSE IF str_contains(unit, GB) THEN Scale(number, 1)
    ELSE IF str_contains(unit, TB) THEN Scale(number, 2)
    ELSE Zero

NA == <<"N", "/", "A">>

\* number, unit = float(..), ".."  followed by the unit ladder; the CLI lets
\* float's ValueError out, the GUI answers 0.0 (try/except around each float)
with_unit_CLI(n, unit) ==
    IF n.ok THEN Ret(UnitToMB(n.val, unit)) ELSE Raise("ValueError")

with_unit_GUI(n, unit) ==
    IF n.ok THEN Ret(UnitToMB(n.val, unit)) ELSE Ret(Zero)

\* try: return float(size_str) / except: return 0.0
bare_number(n) == IF n.ok THEN Ret(n.val) ELSE Ret(Zero)

\* CLI.human_size_to_bytes from "parts = size_str.split()" on
size_of_parts_CLI(size_str, parts) ==
    IF Len(parts) # 2
    THEN IF str_endswith(size_str, GB)
         THEN with_unit_CLI(float(str_replace(size_str, GB, <<>>)), GB)
         ELSE IF str_endswith(size_str, MB)
         THEN with_unit_CLI(float(str_replace(size_str, MB, <<>>)), MB)
         ELSE IF str_endswith(size_str, KB)
         THEN with_unit_CLI(float(str_replace(size_str, KB, <<>>)), KB)
         ELSE bare_number(float(size_str))
    ELSE with_unit_CLI(float(parts[1]), parts[2])

\* GUI.human_size_to_bytes from "parts = size_str.split()" on
size_of_parts_GUI(size_str, parts) ==
    IF Len(parts) # 2
    THEN IF str_endswith(size_str, GB)
         THEN with_unit_GUI(float(str_replace(size_str, GB, <<>>)), GB)
         ELSE IF str_endswith(size_str, MB)
         THEN with_unit_GUI(float(str_replace(size_str, MB, <<>>)), MB)
         ELSE IF str_endswith(size_str, KB)
         THEN with_unit_GUI(float(str_replace(size_str, KB, <<>>)), KB)
         ELSE bare_number(float(size_str))
    ELSE with_unit_GUI(float(parts[1]), parts[2])

size_of_upper_CLI(size_str) == size_of_parts_CLI(size_str, str_split(size_str))

size_of_upper_GUI(size_str) == size_of_parts_GUI(size_str, str_split(size_str))

\* CLI: size_str.upper().replace(",", "")
human_size_to_bytes_CLI(size_str) ==
    IF size_str = <<>> \/ size_str = NA THEN Ret(Zero)
    ELSE size_of_upper_CLI(str_replace(str_upper(size_str), <<",">>, <<>>))

\* GUI: size_str.upper().replace(",", "").strip()
human_size_to_bytes_GUI(size_str) ==
    IF size_str = <<>> \/ size_str = NA THEN Ret(Zero)
    ELSE size_of_upper_GUI(
             str_strip(str_replace(str_upper(size_str), <<",">>, <<>>)))

human_size_to_bytes(fe, s) ==
    IF fe = "CLI" THEN human_size_to_bytes_CLI(s) ELSE human_size_to_bytes_GUI(s)

-----------------------------------------------------------------------------
(* Configuration: config.json and the dict load_config returns.            *)

\* stands for the raw.githubusercontent.com URL both front-ends default to
DEFAULT_UPLOADS_URL == <<"d">>

\* a dict as far as the program reads it: its "uploads_url" entry, if any
Dict(has, url) == [has |-> has, url |-> url]

DefaultConfig == Dict(TRUE, DEFAULT_UPLOADS_URL)

\* config.get("uploads_url", DEFAULT_UPLOADS_URL)
config_get(cfg) == IF cfg.has THEN cfg.url ELSE DEFAULT_UPLOADS_URL

File(kind, has, url) == [kind |-> kind, has |-> has, url |-> url]

StoredUrls == {<<"s">>, <<"u">>}

\* config.json: absent, present but unreadable, not JSON, or a JSON value
CfgFiles ==
    {File(k, FALSE, <<>>) :
        k \in {"missing", "unreadable", "garbage", "list", "string",
               "number", "null", "object"}}
    \cup {File("object", TRUE, u) : u \in StoredUrls}

\* open(CONFIG_FILE) followed by json.load(f)
json_load(file) ==
    IF file.kind = "unreadable" THEN Raise("OSError")
    ELSE IF file.kind = "garbage" THEN Raise("JSONDecodeError")
    ELSE Ret(file)

\* load_config without its try/except: the exception of open/json.load
\* reaches the caller
load_config_unguarded(file) ==
    IF file.kind # "missing"
    THEN LET data == json_load(file) IN
         IF data.raised THEN Raise(DefaultConfig)
         ELSE IF data.val.kind = "object"
              THEN Ret(Dict(data.val.has, data.val.url))
         ELSE Ret(DefaultConfig)
    ELSE Ret(DefaultConfig)

load_config_CLI(file) ==
    IF file.kind # "missing"
    THEN LET data == json_load(file) IN
         IF data.raised THEN Ret(DefaultConfig)                 \* except: pass
         ELSE IF data.val.kind = "list" THEN Ret(DefaultConfig)
         ELSE IF data.val.kind = "object"
              THEN Ret(Dict(data.val.has, data.val.url))
         ELSE Ret(DefaultConfig)
    ELSE Ret(DefaultConfig)

load_config_GUI(file) ==
    IF file.kind # "missing"
    THEN LET data == json_load(file) IN
         IF data.raised THEN Ret(DefaultConfig)                 \* except: pass
         ELSE IF data.val.kind = "object" /\ data.val.has
              THEN Ret(Dict(data.val.has, data.val.url))
         ELSE Ret(DefaultConfig)
    ELSE Ret(DefaultConfig)

load_config(fe, file) ==
    IF fe = "CLI" THEN load_config_CLI(file) ELSE load_config_GUI(file)

\* how open(CONFIG_FILE, "w") / json.dump can end
WriteOutcomes == {"ok", "open_fails"}

\* the file after the attempt
FileAfterWrite(file, cfg, w) ==
    IF w = "ok" THEN File("object", cfg.has, cfg.url) ELSE file

\* CLI.save_config: no handler, an OSError reaches the caller
save_config_CLI(w) == IF w = "ok" THEN Ret("None") ELSE Raise("OSError")

\* GUI.save_config: except Exception: pass
save_config_GUI(w) == Ret("None")

save_config(fe, w) ==
    IF fe = "CLI" THEN save_config_CLI(w) ELSE save_config_GUI(w)

-----------------------------------------------------------------------------
(* Upload records and catalogs.                                            *)

\* a JSON object of the catalog: the keys it has among id, title, size
\* (seeds, leeches, magnet and description are taken to be present)
Rec(has, id, title, size) ==
    [has |-> has, id |-> id, title |-> title, size |-> size]

RecA == Rec({"id", "title", "size"}, "1", <<"A", "b">>, <<"2", " ", "M", "B">>)
RecB == Rec({"id", "title", "size"}, "2", <<"b", "c">>, <<"1", "G", "B">>)
RecC == Rec({"id", "title", "size"}, "1", <<"C">>, <<"2", "0", "4", "8", " ", "K", "B">>)
RecD == Rec({"size"}, "", <<>>, <<"a", "b", "c", " ", "G", "B">>)

\* RecA/RecC share an id and a size (2 MB = 2048 KB); RecD has neither id nor
\* title and a size whose number is not a numeral
RecordPool == {RecA, RecB, RecC, RecD}

MaxCat == 2

RECURSIVE SeqsUpTo(_, _)
SeqsUpTo(S, n) ==
    IF n = 0 THEN {<<>>}
    ELSE LET shorter == SeqsUpTo(S, n - 1) IN
         shorter \cup {Append(c, x) : c \in {t \in shorter : Len(t) = n - 1}, x \in S}

Catalogs == SeqsUpTo(RecordPool, MaxCat)

\* u[k] and u.get(k, default)
dict_item(u, k) == IF k \in u.has THEN Ret(u[k]) ELSE Raise("KeyError")

dict_get(u, k, default) == IF k \in u.has THEN u[k] ELSE default

\* a parsed JSON value: an array of records, or something else
Json(kind, items) == [kind |-> kind, items |-> items]

EmptyList == Json("array", <<>>)

IsList(v) == v.kind = "array"

\* Python truthiness: [] and None are falsy, a non-empty dict and 7 are truthy
Truthy(v) ==
    IF v.kind = "array" THEN v.items # <<>> ELSE v.kind \in {"object", "number"}

\* what the remote end can answer: requests raises (connection error, timeout,
\* raise_for_status), the body is not JSON, or the body is a JSON value
Responses ==
    {Json(k, <<>>) : k \in {"unreachable", "malformed", "object", "number", "null"}}
    \cup {Json("array", c) : c \in Catalogs}

-----------------------------------------------------------------------------
(* Queries: sort, search, lookup, and the table the CLI prints.            *)

\* sorted(xs, key=..., reverse=rev) / list.sort: a stable sort, also with
\* reverse=True (equal keys keep their original relative order).
\* pairs are [u |-> record, k |-> key]
Before(p, q, rev) == IF rev THEN NumLess(q.k, p.k) ELSE NumLess(p.k, q.k)

RECURSIVE InsertSorted(_, _, _)
InsertSorted(s, p, rev) ==
    IF s = <<>> THEN <<p>>
    ELSE IF Before(p, s[1], rev) THEN <<p>> \o s
    ELSE <<s[1]>> \o InsertSorted(Tail(s), p, rev)

RECURSIVE SortPairs(_, _)
SortPairs(pairs, rev) ==
    IF pairs = <<>> THEN <<>>
    ELSE InsertSorted(SortPairs(SubSeq(pairs, 1, Len(pairs) - 1), rev),
                      pairs[Len(pairs)], rev)

\* the sort key of both front-ends (the default differs: "0 B" / "0 MB")
size_key(fe, u) ==
    human_size_to_bytes(fe,
        dict_get(u, "size", IF fe = "CLI" THEN <<"0", " ", "B">>
                            ELSE <<"0", " ", "M", "B">>))

Unpair(result) == [i \in 1..Len(result) |-> result[i].u]

sorted_with_keys(items, keys, rev) ==
    IF \E i \in 1..Len(items) : keys[i].raised THEN Raise(<<>>)
    ELSE Ret(Unpair(SortPairs(
                 [i \in 1..Len(items) |-> [u |-> items[i], k |-> keys[i].val]],
                 rev)))

\* the list sorted by size_key, or the exception the key function raised
sorted_by_size(fe, items, rev) ==
    sorted_with_keys(items, [i \in 1..Len(items) |-> size_key(fe, items[i])], rev)

\* CLI.search_uploads: u['title'] raises KeyError on a record without title
search_uploads_CLI(items, query) ==
    IF \E i \in 1..Len(items) : "title" \notin items[i].has THEN Raise(<<>>)
    ELSE Ret(SelectSeq(items,
                LAMBDA u : str_contains(str_lower(u.title), str_lower(query))))

\* GUI.search_uploads
search_uploads_GUI(items, query) ==
    LET q == str_strip(str_lower(query)) IN
    IF q = <<>> THEN Ret(items)
    ELSE Ret(SelectSeq(items,
                LAMBDA u : str_contains(str_lower(dict_get(u, "title", <<>>)), q)))

search_uploads(fe, items, query) ==
    IF fe = "CLI" THEN search_uploads_CLI(items, query)
    ELSE search_uploads_GUI(items, query)

NoRec == Rec({}, "", <<>>, <<>>)

Found(u) == [found |-> TRUE, rec |-> u]

NotFound == [found |-> FALSE, rec |-> NoRec]

\* next((u for u in uploads if u["id"] == tid), None)
RECURSIVE lookup(_, _)
lookup(items, tid) ==
    IF items = <<>> THEN Ret(NotFound)
    ELSE IF "id" \notin items[1].has THEN Raise(NotFound)
    ELSE IF items[1].id = tid THEN Ret(Found(items[1]))
    ELSE lookup(Tail(items), tid)

\* the rows of list_uploads: u["id"], u["title"], u["size"] of every record
table_rows(items) ==
    IF \E i \in 1..Len(items) : ~ ({"id", "title", "size"} \subseteq items[i].has)
    THEN Raise(<<>>)
    ELSE Ret(items)

\* show_info(found): torrent["title"], torrent["size"], torrent['id']
show_info(u) ==
    IF {"id", "title", "size"} \subseteq u.has THEN Ret(<<u>>) ELSE Raise(<<>>)

-----------------------------------------------------------------------------
(* Fetching.                                                               *)

\* CLI.fetch_uploads: what it returns and whether it printed a failure
fetch_uploads(resp) ==
    IF resp.kind \in {"unreachable", "malformed"}
    THEN [value |-> EmptyList, reported |-> TRUE]           \* except: return []
    ELSE [value |-> resp, reported |-> FALSE]               \* return response.json()

Signal(items, error, resp) == [uploads |-> items, error |-> error, resp |-> resp]

\* FetchThread.run that emits a non-array body as an empty success
FetchThread_run_no_detail(resp) ==
    IF resp.kind \in {"unreachable", "malformed"}
    THEN Signal(<<>>, "str(e)", resp.kind)
    ELSE Signal(resp.items, "", resp.kind)

\* FetchThread.run: the one finished_signal.emit of each branch
\* (resp is carried along only to name the outcome in the properties)
FetchThread_run(resp) ==
    IF resp.kind \in {"unreachable", "malformed"}
    THEN Signal(<<>>, "str(e)", resp.kind)
    ELSE IF resp.kind = "array" THEN Signal(resp.items, "", resp.kind)
    ELSE Signal(<<>>, "JSON root is not a list", resp.kind)

\* on_fetch_finished with an error branch that only reports
on_fetch_finished_keeps_old(old, items, error) ==
    IF error # "" THEN old
    ELSE IF items # <<>> THEN Json("array", items) ELSE EmptyList

\* self.uploads after on_fetch_finished(uploads, error)
on_fetch_finished_uploads(old, items, error) ==
    IF error # "" THEN EmptyList
    ELSE IF items # <<>> THEN Json("array", items) ELSE EmptyList

\* uploads after CLI "refresh" / "seturl": uploads = fetch_uploads()
refresh_uploads(old, fetched) == fetched.value

-----------------------------------------------------------------------------
(* The record of the last handler, read by the properties.                 *)

L0 == [op |-> "start", q |-> <<>>, tid |-> "", mode |-> "", url |-> <<>>,
       typed |-> <<>>, raised |-> FALSE, out |-> <<>>, found |-> FALSE,
       resp |-> "", reported |-> FALSE, write |-> "", had |-> FALSE]

\* a non-empty list of records is installed
HasCatalog(v) == IsList(v) /\ v.items # <<>>

\* what the user can type
Queries == {<<>>, <<"B">>, <<"a", "b">>, <<"z">>, <<" ", "b">>}

Ids == {"1", "2", "3", "9"}

UrlInputs == {<<>>, <<"u">>, <<" ", "v">>}

SortModes == {"smallest", "largest"}

\* an exception leaving main() ends the console program
AfterCall(raised) == IF raised THEN "crashed" ELSE "running"

-----------------------------------------------------------------------------
(* Start-up.                                                               *)

\* the files the whole-program specification starts from
StartFiles == {File("missing", FALSE, <<>>), File("object", TRUE, <<"s">>)}

InitWith(files) ==
    /\ frontend \in Frontends
    /\ status = "boot"
    /\ cfgFile \in files
    /\ config = DefaultConfig
    /\ UPLOADS_URL = DEFAULT_UPLOADS_URL
    /\ uploads = EmptyList
    /\ controls = TRUE
    /\ threads = <<>>
    /\ signals = <<>>
    /\ last = L0
    /\ sizeIn = <<>>
    /\ sizeOut = Ret(Zero)

Init == InitWith(StartFiles)

\* start_fetch that always fetches from the built-in URL
start_fetch_default(url) ==
    /\ controls' = FALSE
    /\ threads' = Append(threads, DEFAULT_UPLOADS_URL)

\* start_fetch that leaves the controls as they are
start_fetch_enabled(url) ==
    /\ controls' = controls
    /\ threads' = Append(threads, url)

\* GUI.start_fetch
start_fetch(url) ==
    /\ controls' = FALSE                       \* set_controls_enabled(False)
    /\ threads' = Append(threads, url)         \* FetchThread(url).start()

\* CLI module level: config = load_config(); UPLOADS_URL = config.get(...)
CLI_load ==
    /\ frontend = "CLI" /\ status = "boot"
    /\ LET r == load_config("CLI", cfgFile) IN
       /\ status' = IF r.raised THEN "crashed" ELSE "loaded"
       /\ config' = IF r.raised THEN config ELSE r.val
       /\ UPLOADS_URL' = IF r.raised THEN UPLOADS_URL ELSE config_get(r.val)
       /\ last' = [L0 EXCEPT !.op = "load_config", !.raised = r.raised]
    /\ UNCHANGED <<frontend, cfgFile, uploads, controls, threads, signals,
                   sizeIn, sizeOut>>

\* CLI.main, up to the prompt loop: uploads = fetch_uploads(); if not uploads: return
CLI_main ==
    /\ frontend = "CLI" /\ status = "loaded"
    /\ \E resp \in Responses :
         LET f == fetch_uploads(resp) IN
         /\ uploads' = f.value
         /\ status' = IF Truthy(f.value) THEN "running" ELSE "exited"
         /\ last' = [L0 EXCEPT !.op = "main", !.url = UPLOADS_URL,
                               !.resp = resp.kind, !.reported = f.reported]
    /\ UNCHANGED <<frontend, cfgFile, config, UPLOADS_URL, controls, threads,
                   signals, sizeIn, sizeOut>>

\* AllTheTorrGUI.__init__: load the config, empty catalog, first fetch
GUI_init ==
    /\ frontend = "GUI" /\ status = "boot"
    /\ LET r == load_config("GUI", cfgFile) IN
       /\ status' = IF r.raised THEN "crashed" ELSE "running"
       /\ config' = IF r.raised THEN config ELSE r.val
       /\ UPLOADS_URL' = IF r.raised THEN UPLOADS_URL ELSE config_get(r.val)
       /\ last' = [L0 EXCEPT !.op = "load_config", !.raised = r.raised,
                             !.url = IF r.raised THEN <<>> ELSE config_get(r.val)]
       /\ IF r.raised THEN UNCHANGED <<controls, threads>>
          ELSE start_fetch(config_get(r.val))
    /\ uploads' = EmptyList
    /\ UNCHANGED <<frontend, cfgFile, signals, sizeIn, sizeOut>>

-----------------------------------------------------------------------------
(* The console prompt loop (CLI.main).                                     *)

CLI_prompt == frontend = "CLI" /\ status = "running"

CLI_frame == UNCHANGED <<frontend, cfgFile, config, UPLOADS_URL, controls,
                         threads, signals, sizeIn, sizeOut>>

\* cmd == "list": list_uploads(uploads)
CLI_list ==
    /\ CLI_prompt
    /\ LET t == IF IsList(uploads) THEN table_rows(uploads.items) ELSE Raise(<<>>) IN
       /\ status' = AfterCall(t.raised)
       /\ last' = [L0 EXCEPT !.op = "list", !.raised = t.raised, !.out = t.val]
    /\ UNCHANGED uploads
    /\ CLI_frame

\* cmd == "sort": list_uploads(uploads, sort_by=...) sorts the list in place
CLI_sort ==
    /\ CLI_prompt
    /\ \E sortby \in SortModes :
         LET s == IF IsList(uploads)
                  THEN sorted_by_size("CLI", uploads.items, sortby = "largest")
                  ELSE Raise(<<>>)
             t == IF s.raised THEN s ELSE table_rows(s.val)
         IN  /\ uploads' = IF s.raised THEN uploads ELSE Json("array", s.val)
             /\ status' = AfterCall(t.raised)
             /\ last' = [L0 EXCEPT !.op = "sort", !.mode = sortby,
                                   !.raised = t.raised,
                                   !.out = IF s.raised THEN <<>> ELSE s.val]
    /\ CLI_frame

\* cmd == "search"
CLI_search ==
    /\ CLI_prompt
    /\ \E q \in Queries :
         LET r == IF IsList(uploads) THEN search_uploads("CLI", uploads.items, q)
                  ELSE Raise(<<>>)
             t == IF r.raised \/ r.val = <<>> THEN r ELSE table_rows(r.val)
         IN  /\ status' = AfterCall(t.raised)
             /\ last' = [L0 EXCEPT !.op = "search", !.q = q, !.raised = t.raised,
                                   !.out = r.val]
    /\ UNCHANGED uploads
    /\ CLI_frame

\* cmd == "info"
CLI_info ==
    /\ CLI_prompt
    /\ \E tid \in Ids :
         LET r == IF IsList(uploads) THEN lookup(uploads.items, tid)
                  ELSE Raise(NotFound)
             t == IF r.raised \/ ~ r.val.found THEN r ELSE show_info(r.val.rec)
         IN  /\ status' = AfterCall(t.raised)
             /\ last' = [L0 EXCEPT !.op = "info", !.tid = tid, !.raised = t.raised,
                                   !.found = r.val.found,
                                   !.out = IF r.val.found THEN <<r.val.rec>> ELSE <<>>]
    /\ UNCHANGED uploads
    /\ CLI_frame

\* cmd == "download": the same lookup, then open_magnet(found["magnet"])
CLI_download ==
    /\ CLI_prompt
    /\ \E tid \in Ids :
         LET r == IF IsList(uploads) THEN lookup(uploads.items, tid)
                  ELSE Raise(NotFound)
         IN  /\ status' = AfterCall(r.raised)
             /\ last' = [L0 EXCEPT !.op = "download", !.tid = tid,
                                   !.raised = r.raised, !.found = r.val.found,
                                   !.out = IF r.val.found THEN <<r.val.rec>> ELSE <<>>]
    /\ UNCHANGED uploads
    /\ CLI_frame

\* cmd == "refresh": uploads = fetch_uploads()
CLI_refresh ==
    /\ CLI_prompt
    /\ \E resp \in Responses :
         LET f == fetch_uploads(resp) IN
         /\ uploads' = refresh_uploads(uploads, f)
         /\ last' = [L0 EXCEPT !.op = "refresh", !.url = UPLOADS_URL,
                               !.resp = resp.kind, !.reported = f.reported,
                               !.had = HasCatalog(uploads)]
    /\ UNCHANGED status
    /\ CLI_frame

\* cmd == "exit"
CLI_exit ==
    /\ CLI_prompt
    /\ status' = "exited"
    /\ last' = [L0 EXCEPT !.op = "exit"]
    /\ UNCHANGED uploads
    /\ CLI_frame

\* cmd == "seturl": config[...] = new_url; save_config(config); UPLOADS_URL =
\* new_url; uploads = fetch_uploads().  An OSError from save_config leaves main.
CLI_seturl ==
    /\ CLI_prompt
    /\ \E new_url \in UrlInputs, w \in WriteOutcomes, resp \in Responses :
         LET cfg == Dict(TRUE, new_url)
             sv  == save_config("CLI", w)
             f   == fetch_uploads(resp)
         IN  /\ config' = cfg
             /\ cfgFile' = FileAfterWrite(cfgFile, cfg, w)
             /\ status' = AfterCall(sv.raised)
             /\ UPLOADS_URL' = IF sv.raised THEN UPLOADS_URL ELSE new_url
             /\ uploads' = IF sv.raised THEN uploads ELSE refresh_uploads(uploads, f)
             /\ last' = [L0 EXCEPT !.op = "seturl", !.write = w,
                                   !.raised = sv.raised,
                                   !.url = IF sv.raised THEN <<>> ELSE new_url,
                                   !.typed = new_url,
                                   !.resp = IF sv.raised THEN "" ELSE resp.kind,
                                   !.reported = IF sv.raised THEN FALSE ELSE f.reported,
                                   !.had = HasCatalog(uploads)]
    /\ UNCHANGED <<frontend, controls, threads, signals, sizeIn, sizeOut>>

-----------------------------------------------------------------------------
(* The PyQt front-end (GUI.AllTheTorrGUI and GUI.FetchThread).             *)

\* a click reaches its handler only while the button is enabled
GUI_ready == frontend = "GUI" /\ status = "running" /\ controls

GUI_frame == UNCHANGED <<frontend, status, sizeIn, sizeOut>>

RemoveAt(s, i) == SubSeq(s, 1, i - 1) \o SubSeq(s, i + 1, Len(s))

\* FetchThread.run on the worker: one emit, queued for the GUI thread
GUI_FetchThread_run ==
    /\ frontend = "GUI" /\ status = "running"
    /\ \E i \in 1..Len(threads), resp \in Responses :
         /\ threads' = RemoveAt(threads, i)
         /\ signals' = Append(signals, FetchThread_run(resp))
         /\ last' = [L0 EXCEPT !.op = "run", !.url = threads[i], !.resp = resp.kind]
    /\ UNCHANGED <<cfgFile, config, UPLOADS_URL, uploads, controls>>
    /\ GUI_frame

\* on_fetch_finished(uploads, error), in the GUI thread
GUI_on_fetch_finished ==
    /\ frontend = "GUI" /\ status = "running"
    /\ signals # <<>>
    /\ LET sig == Head(signals) IN
       /\ controls' = TRUE                     \* set_controls_enabled(True)
       /\ uploads' = on_fetch_finished_uploads(uploads, sig.uploads, sig.error)
       /\ last' = [L0 EXCEPT !.op = "fetch_finished", !.resp = sig.resp,
                             !.reported = (sig.error # ""),
                             !.had = HasCatalog(uploads),
                             !.out = IF sig.error # "" THEN <<>> ELSE sig.uploads]
    /\ signals' = Tail(signals)
    /\ UNCHANGED <<cfgFile, config, UPLOADS_URL, threads>>
    /\ GUI_frame

\* on_refresh_clicked
GUI_on_refresh_clicked ==
    /\ GUI_ready
    /\ start_fetch(UPLOADS_URL)
    /\ last' = [L0 EXCEPT !.op = "refresh", !.url = UPLOADS_URL]
    /\ UNCHANGED <<cfgFile, config, UPLOADS_URL, uploads, signals>>
    /\ GUI_frame

\* on_update_url_clicked: an empty field is refused with a warning
GUI_on_update_url_clicked ==
    /\ GUI_ready
    /\ \E text \in UrlInputs, w \in WriteOutcomes :
         LET new_url == str_strip(text)
             cfg     == Dict(TRUE, new_url)
             sv      == save_config("GUI", w)
         IN  IF new_url = <<>>
             THEN /\ last' = [L0 EXCEPT !.op = "update_url", !.typed = text,
                                        !.reported = TRUE]
                  /\ UNCHANGED <<cfgFile, config, UPLOADS_URL, controls, threads>>
             ELSE /\ UPLOADS_URL' = new_url
                  /\ config' = cfg
                  /\ cfgFile' = FileAfterWrite(cfgFile, cfg, w)
                  /\ IF sv.raised THEN UNCHANGED <<controls, threads>>
                     ELSE start_fetch(new_url)
                  /\ last' = [L0 EXCEPT !.op = "update_url", !.typed = text,
                                        !.write = w, !.raised = sv.raised,
                                        !.url = IF sv.raised THEN <<>> ELSE new_url]
    /\ UNCHANGED <<uploads, signals>>
    /\ GUI_frame

\* on_search_clicked: populate_list(search_uploads(self.uploads, q))
GUI_on_search_clicked ==
    /\ GUI_ready
    /\ \E text \in Queries :
         LET r == search_uploads("GUI", uploads.items, str_strip(text)) IN
         last' = [L0 EXCEPT !.op = "search", !.q = str_strip(text),
                            !.raised = r.raised, !.out = r.val]
    /\ UNCHANGED <<cfgFile, config, UPLOADS_URL, uploads, controls, threads, signals>>
    /\ GUI_frame

\* sort_by_size(mode): populate_list(sorted(self.uploads, ...)); an exception
\* of the key function ends in the "Could not sort" warning
GUI_sort_by_size ==
    /\ GUI_ready
    /\ \E mode \in SortModes :
         LET s == sorted_by_size("GUI", uploads.items, mode = "largest") IN
         last' = [L0 EXCEPT !.op = "sort", !.mode = mode, !.reported = s.raised,
                            !.out = s.val]
    /\ UNCHANGED <<cfgFile, config, UPLOADS_URL, uploads, controls, threads, signals>>
    /\ GUI_frame

-----------------------------------------------------------------------------
(* The program.                                                            *)

Next ==
    \/ CLI_load
    \/ CLI_main
    \/ CLI_list
    \/ CLI_sort
    \/ CLI_search
    \/ CLI_info
    \/ CLI_download
    \/ CLI_refresh
    \/ CLI_seturl
    \/ CLI_exit
    \/ GUI_init
    \/ GUI_FetchThread_run
    \/ GUI_on_fetch_finished
    \/ GUI_on_refresh_clicked
    \/ GUI_on_update_url_clicked
    \/ GUI_on_search_clicked
    \/ GUI_sort_by_size

Spec == Init /\ [][Next]_vars

\* the program with its worker threads scheduled and the Qt event loop
\* delivering queued signals
SpecFair ==
    /\ Spec
    /\ WF_vars(GUI_FetchThread_run)
    /\ WF_vars(GUI_on_fetch_finished)

\* start-up alone, from every shape config.json can have
InitConfig == InitWith(CfgFiles)

NextConfig ==
    \/ CLI_load
    \/ CLI_main
    \/ GUI_init
    \/ GUI_FetchThread_run
    \/ GUI_on_fetch_finished

SpecConfig == InitConfig /\ [][NextConfig]_vars


-----------------------------------------------------------------------------
(* The size parser on its own: every input string, both front-ends.        *)

\* numerals float() accepts, with their values
SizeNumbers ==
    { [text |-> <<"0">>, val |-> Num(0, 0, 0)],
      [text |-> <<"1">>, val |-> Num(1, 0, 0)],
      [text |-> <<"3", ".", "5">>, val |-> Num(35, 1, 0)],
      [text |-> <<"1", "0", "2", "4">>, val |-> Num(1024, 0, 0)],
      [text |-> <<"1", ",", "5", "0", "0">>, val |-> Num(1500, 0, 0)] }

\* numeric text float() refuses
MalformedTexts == { <<"a", "b", "c">>, <<"1", ".", "2", ".", "3">>, <<>> }

Units == {KB, MB, GB, TB}

OtherUnits == { <<"g", "b">>, <<"t", "b">>, <<"B">>, <<"X", "B">>, <<>> }

Spaced(text, unit) == text \o <<" ">> \o unit

Unspaced(text, unit) == text \o unit

SizeInputs ==
    {Spaced(n.text, U) : n \in SizeNumbers, U \in Units \cup OtherUnits}
    \cup {Unspaced(n.text, U) : n \in SizeNumbers, U \in Units \cup OtherUnits}
    \cup {Spaced(t, U) : t \in MalformedTexts, U \in Units \cup OtherUnits}
    \cup {Unspaced(t, U) : t \in MalformedTexts, U \in Units \cup OtherUnits}
    \cup { NA, <<"g", "a", "r", "b", "a", "g", "e">>,
           <<" ", "1", "G", "B", " ">>, <<"1", " ", " ", "G", "B">>,
           <<"1", " ", "G", " ", "B">>, <<"-", "1", " ", "M", "B">> }

InitSize ==
    /\ frontend \in Frontends
    /\ status = "boot"
    /\ cfgFile = File("missing", FALSE, <<>>)
    /\ config = DefaultConfig
    /\ UPLOADS_URL = DEFAULT_UPLOADS_URL
    /\ uploads = EmptyList
    /\ controls = TRUE
    /\ threads = <<>>
    /\ signals = <<>>
    /\ last = L0
    /\ sizeIn \in SizeInputs
    /\ sizeOut = Ret(Zero)

ParseSize ==
    /\ last.op = "start"
    /\ sizeOut' = human_size_to_bytes(frontend, sizeIn)
    /\ last' = [L0 EXCEPT !.op = "parse"]
    /\ UNCHANGED <<frontend, status, cfgFile, config, UPLOADS_URL, uploads,
                   controls, threads, signals, sizeIn>>

NextSize ==
    \/ ParseSize

SpecSize == InitSize /\ [][NextSize]_vars


-----------------------------------------------------------------------------
(* Properties.                                                             *)

\* the handlers in which a fetch completes
FetchOps == {"main", "refresh", "seturl", "fetch_finished"}

QueryOps == {"list", "sort", "search", "info", "download"}

\* this step completed a fetch that failed with a network error, a timeout
\* or a non-success status
FetchFailedStep == last'.op \in FetchOps /\ last'.resp = "unreachable"

\* this step completed a fetch whose body is JSON but not an array
NonArrayStep == last'.op \in FetchOps /\ last'.resp \in {"object", "number", "null"}

\* this step ran a query on the empty catalog
QueryOnEmptyStep == last'.op \in QueryOps /\ uploads = EmptyList

\* C1 (as claimed): when a fetch fails with a network error, timeout or
\* non-success status, the active catalog after the failure is the catalog
\* that was installed before it.
C1_FailedFetchKeepsCatalog == [][FetchFailedStep => uploads' = uploads]_vars

\* C1 (amended): a fetch that fails with a network error, timeout or
\* non-success status is reported and leaves the EMPTY catalog active,
\* whatever was installed before; a query on the empty catalog answers with
\* an empty result and the program keeps running.
C1_FailedFetchEmptiesCatalog ==
    [][/\ FetchFailedStep => (uploads' = EmptyList /\ last'.reported)
       /\ QueryOnEmptyStep => (~ last'.raised /\ last'.out = <<>>
                               /\ status' = "running")]_vars

\* a refresh failed while a non-empty catalog was installed, and the program
\* is still at its prompt / event loop
C1_Witness ==
    /\ last.op \in {"refresh", "fetch_finished"}
    /\ last.resp = "unreachable"
    /\ last.had
    /\ uploads = EmptyList
    /\ status = "running"

\* C2: a fetch whose body parses to a JSON value that is not an array is
\* reported as a failure, is not installed as the active catalog, and leaves
\* the previously installed catalog unchanged.
C2_NonArrayIsRejected ==
    [][NonArrayStep => (last'.reported /\ IsList(uploads') /\ uploads' = uploads)]_vars

\* C4: a sort in either direction leaves the active catalog unchanged.
C4_SortLeavesCatalog == [][last'.op = "sort" => uploads' = uploads]_vars

\* C5: search, sort and lookup never fail on a catalog (a list of records)
\* that a fetch installed: no exception, no program exit.
C5_QueriesNeverFail ==
    (last.op \in QueryOps /\ IsList(uploads))
        => (~ last.raised /\ status = "running")

\* C6: when writing config.json fails during a URL change the program keeps
\* running, the configured URL is the new URL, and the fetch that follows is
\* started with the new URL.
C6_SaveFailureNonFatal ==
    [][(last'.op \in {"seturl", "update_url"} /\ last'.write = "open_fails")
        => /\ status' = "running"
           /\ UPLOADS_URL' = (IF frontend = "GUI" THEN str_strip(last'.typed)
                              ELSE last'.typed)
           /\ last'.url = UPLOADS_URL']_vars

\* the URL config.json stores, when it holds an object with the key
StoredOrDefault(file) ==
    IF file.kind = "object" /\ file.has THEN file.url ELSE DEFAULT_UPLOADS_URL

\* C7: load_config never raises; the configured URL is the default whenever
\* config.json is missing, unreadable, not JSON, or JSON of any shape other
\* than an object, and is the stored URL only for an object.
C7_LoadConfigFallsBack ==
    last.op = "load_config"
        => /\ ~ last.raised
           /\ status # "crashed"
           /\ UPLOADS_URL = StoredOrDefault(cfgFile)
           /\ (cfgFile.kind # "object" => UPLOADS_URL = DEFAULT_UPLOADS_URL)

\* the program started on a list-shaped config.json and runs on the default
C7_Witness ==
    /\ last.op = "load_config"
    /\ cfgFile.kind = "list"
    /\ status \in {"loaded", "running"}
    /\ UPLOADS_URL = DEFAULT_UPLOADS_URL

\* malformed numeric text with a recognized unit
MalformedInputs ==
    {Spaced(t, U) : t \in MalformedTexts, U \in Units}
    \cup {Unspaced(t, U) : t \in MalformedTexts, U \in Units}

\* C8: the size parser never raises, and returns 0.0 when the numeric text
\* in front of a recognized unit is malformed.
C8_ParserNeverRaises ==
    last.op = "parse"
        => /\ ~ sizeOut.raised
           /\ sizeIn \in MalformedInputs => NumEq(sizeOut.val, Zero)

\* n normalized to megabytes
InMB(n, U) ==
    Scale(n, CASE U = KB -> 0 - 1 [] U = MB -> 0 [] U = GB -> 1 [] U = TB -> 2)

\* C9: for every number n and unit U in KB, MB, GB, TB the parser gives the
\* spaced form "n U" and the no-space form "nU" the same result, n in MB.
C9_SpacedAndUnspacedAgree ==
    last.op = "parse"
        => \A n \in SizeNumbers, U \in Units :
              sizeIn \in {Spaced(n.text, U), Unspaced(n.text, U)}
                  => (~ sizeOut.raised /\ NumEq(sizeOut.val, InMB(n.val, U)))

\* out is src stably sorted by the parsed size: a permutation p of the
\* positions with out[i] = src[p[i]], keys in order, ties in source order
StableSortOf(fe, src, out, rev) ==
    /\ Len(out) = Len(src)
    /\ \A i \in 1..Len(src) : ~ size_key(fe, src[i]).raised
    /\ src = <<>> \/ \E p \in Permutations(1..Len(src)) :
          /\ \A i \in 1..Len(src) : out[i] = src[p[i]]
          /\ \A i, j \in 1..Len(src) :
                i < j =>
                  /\ IF rev THEN NumLeq(size_key(fe, out[j]).val, size_key(fe, out[i]).val)
                     ELSE NumLeq(size_key(fe, out[i]).val, size_key(fe, out[j]).val)
                  /\ NumEq(size_key(fe, out[i]).val, size_key(fe, out[j]).val)
                        => p[i] < p[j]

\* C10: a sort returns a permutation of the active catalog ordered by parsed
\* size (non-decreasing for smallest, non-increasing for largest), records
\* of equal parsed size in the order they have in the active catalog.
C10_SortIsStablePermutation ==
    [][(last'.op = "sort" /\ IsList(uploads))
        => StableSortOf(frontend, uploads.items, last'.out, last'.mode = "largest")]_vars

\* the records whose title contains q ignoring case, in catalog order; the
\* whole catalog for the empty query
TitleMatches(items, q) ==
    IF q = <<>> THEN items
    ELSE SelectSeq(items,
            LAMBDA u : /\ "title" \in u.has
                       /\ str_contains(str_lower(u.title), str_lower(q)))

\* C11: search(q) returns exactly the records of the active catalog whose
\* title contains q as a substring ignoring case, in catalog order, and
\* search("") returns the full active catalog in its original order.
C11_SearchReturnsTitleMatches ==
    (last.op = "search" /\ IsList(uploads))
        => (~ last.raised /\ last.out = TitleMatches(uploads.items, last.q))

\* the positions of the records whose id is tid
PositionsOf(items, tid) ==
    {i \in 1..Len(items) : "id" \in items[i].has /\ items[i].id = tid}

\* the first record in catalog order whose id is tid, or none
FirstWithId(items, tid) ==
    LET at == PositionsOf(items, tid) IN
    IF at = {} THEN NotFound
    ELSE Found(items[CHOOSE i \in at : \A j \in at : i <= j])

\* C12: lookup(id) returns none when no record of the active catalog has
\* that id, and otherwise the first record in catalog order with that id,
\* also when several records share it.
C12_LookupReturnsFirstMatch ==
    (last.op \in {"info", "download"} /\ IsList(uploads))
        => /\ ~ last.raised
           /\ last.found = FirstWithId(uploads.items, last.tid).found
           /\ last.found => last.out = <<FirstWithId(uploads.items, last.tid).rec>>

\* this step of the console program issued a request and got its outcome
CLI_FetchStep ==
    frontend = "CLI" /\ last'.op \in {"main", "refresh", "seturl"} /\ last'.resp # ""

\* this step of the GUI started a FetchThread
GUI_FetchStep == frontend = "GUI" /\ Len(threads') = Len(threads) + 1

FetchStep == CLI_FetchStep \/ GUI_FetchStep

\* the URL the request of this step goes to
FetchedUrl == IF frontend = "CLI" THEN last'.url ELSE threads'[Len(threads')]

\* the URL the user asked for in this step
TypedUrl == IF frontend = "GUI" THEN str_strip(last'.typed) ELSE last'.typed

\* C13: every fetch is issued against the currently configured URL: the
\* initial fetch uses the URL of the loaded config, the fetch of a URL change
\* to u uses u, a refresh uses the configured URL, which changes only by a
\* URL change, and a worker requests the URL that is configured when it runs.
C13_FetchUsesConfiguredUrl ==
    [][/\ FetchStep => FetchedUrl = UPLOADS_URL'
       /\ (FetchStep /\ last'.op \in {"main", "load_config"})
             => FetchedUrl = StoredOrDefault(cfgFile)
       /\ (FetchStep /\ last'.op \in {"seturl", "update_url"})
             => FetchedUrl = TypedUrl
       /\ (FetchStep /\ last'.op = "refresh") => FetchedUrl = UPLOADS_URL
       /\ last'.op = "run" => last'.url = UPLOADS_URL
       /\ UPLOADS_URL' # UPLOADS_URL
             => last'.op \in {"load_config", "seturl", "update_url"}]_vars

\* a refresh went to the URL the user had set before
C13_Witness ==
    /\ last.op = "refresh"
    /\ last.url = <<"u">>
    /\ UPLOADS_URL = <<"u">>
    /\ frontend = "GUI" => threads = << <<"u">> >>

\* a completion event is a success carrying the fetched array, or a failure
\* carrying a non-empty detail and no records, never both
OneOutcome(sig) ==
    \/ sig.error = "" /\ sig.resp = "array"
    \/ sig.error # "" /\ sig.uploads = <<>> /\ sig.resp # "array"

\* C14: in the GUI every started fetch delivers exactly one completion event
\* to the GUI thread, a success with a catalog or a failure with a non-empty
\* detail: a worker's run ends the worker and queues one such event, nothing
\* else queues one, and on_fetch_finished takes one event and enables the
\* controls; with the worker and the event loop scheduled, an outstanding
\* fetch leads to its completion being handled and the controls enabled.
C14_OneCompletionPerFetch ==
    /\ [][/\ last'.op = "run"
               => /\ Len(threads') = Len(threads) - 1
                  /\ signals' = Append(signals, signals'[Len(signals')])
                  /\ OneOutcome(signals'[Len(signals')])
          /\ last'.op = "fetch_finished"
               => signals # <<>> /\ signals' = Tail(signals) /\ controls'
          /\ last'.op \notin {"run", "fetch_finished"} => signals' = signals
          /\ Len(threads') + Len(signals') <= Len(threads) + Len(signals) + 1
          /\ Len(threads') + Len(signals') >= Len(threads) + Len(signals) - 1]_vars
    /\ (~ controls) ~> (controls /\ last.op = "fetch_finished")
    /\ (threads # <<>>) ~> (signals # <<>>)

\* a failed fetch has been handed over and handled: nothing is outstanding
\* and the controls are enabled again
C14_Witness ==
    /\ frontend = "GUI"
    /\ last.op = "fetch_finished"
    /\ last.reported
    /\ threads = <<>> /\ signals = <<>>
    /\ controls

\* C15: in the GUI at most one fetch is in flight (a running worker or a
\* completion not yet handled), and while one is the controls that start a
\* fetch are disabled.
C15_AtMostOneFetchInFlight ==
    frontend = "GUI"
        => /\ Len(threads) + Len(signals) <= 1
           /\ Len(threads) + Len(signals) = 1 => ~ controls

\* a refresh or URL change started a fetch after an earlier one was handled
C15_Witness ==
    /\ frontend = "GUI"
    /\ last.op \in {"refresh", "update_url"}
    /\ Len(threads) = 1 /\ signals = <<>>
    /\ ~ controls

====
